---------------------------- MODULE Spec2Model ----------------------------
(***************************************************************************)
(* Model of GITCHEAT.py: the safe delete-branch and staging->main promote   *)
(* workflows, their confirmation gates, the backup tagger and the audit log.*)
(*                                                                         *)
(* Text is modelled as a sequence of one-character strings, so that         *)
(* str.strip(), str.lower() and == are computed as Python computes them.    *)
(* The git executable is the environment: every run_git call draws its      *)
(* return code from the outcomes git can produce in the current repository  *)
(* state (local branches, HEAD, tags); remote state is looked up fresh on   *)
(* every query and is therefore drawn anew each time.                       *)
(***************************************************************************)
EXTENDS Naturals, Sequences, FiniteSets

(***************************************************************************)
(* Bounds of the model.                                                     *)
(***************************************************************************)
\* the clock runs over seconds 0..MaxTime
MaxTime == 1

(***************************************************************************)
(* Text.                                                                    *)
(***************************************************************************)
None == <<"None">>

Whitespace == {" ", "\t"}

UpperAlpha ==
  <<"A","B","C","D","E","F","G","H","I","J","K","L","M",
    "N","O","P","Q","R","S","T","U","V","W","X","Y","Z">>

LowerAlpha ==
  <<"a","b","c","d","e","f","g","h","i","j","k","l","m",
    "n","o","p","q","r","s","t","u","v","w","x","y","z">>

RECURSIVE lstrip(_)
lstrip(s) ==
  IF s # <<>> /\ Head(s) \in Whitespace THEN lstrip(Tail(s)) ELSE s

RECURSIVE rstrip(_)
rstrip(s) ==
  IF s # <<>> /\ s[Len(s)] \in Whitespace
  THEN rstrip(SubSeq(s, 1, Len(s) - 1)) ELSE s

\* str.strip()
strip(s) == rstrip(lstrip(s))

lower_char(c) ==
  IF \E i \in DOMAIN UpperAlpha : UpperAlpha[i] = c
  THEN LowerAlpha[CHOOSE i \in DOMAIN UpperAlpha : UpperAlpha[i] = c]
  ELSE c

\* str.lower()
lower(s) == [i \in 1..Len(s) |-> lower_char(s[i])]

upper_char(c) ==
  IF \E i \in DOMAIN LowerAlpha : LowerAlpha[i] = c
  THEN UpperAlpha[CHOOSE i \in DOMAIN LowerAlpha : LowerAlpha[i] = c]
  ELSE c

Pad(s) == <<" ">> \o s \o <<" ">>

\* first letter upper-cased: "main" -> "Main"
Capitalised(s) == IF s = <<>> THEN s ELSE <<upper_char(Head(s))>> \o Tail(s)

(***************************************************************************)
(* Branch names and fixed phrases.                                          *)
(***************************************************************************)
Main       == <<"m","a","i","n">>
Master     == <<"m","a","s","t","e","r">>
Develop    == <<"d","e","v","e","l","o","p">>
Production == <<"p","r","o","d","u","c","t","i","o","n">>
Prod       == <<"p","r","o","d">>
Staging    == <<"s","t","a","g","i","n","g">>
Release    == <<"r","e","l","e","a","s","e">>
Feat       == <<"f","e","a","t">>

PROTECTED_BRANCHES ==
  {Main, Master, Develop, Production, Prod, Staging, Release}

DeleteWord == <<"D","E","L","E","T","E"," ">>

\* variant: the phrase without its DELETE word
DeletePhrase_bare(b) == b

\* f"DELETE {branch}"
DeletePhrase(b) == DeleteWord \o b

\* variant: the phrase in lower case
PushPhrase_lower ==
  <<"p","u","s","h"," ","s","t","a","g","i","n","g"," ","t","o"," ",
    "m","a","i","n">>

PushPhrase ==
  <<"P","U","S","H"," ","S","T","A","G","I","N","G"," ","T","O"," ",
    "M","A","I","N">>

BackupPrefix == <<"b","a","c","k","u","p","/">>

Digits == <<"0","1","2","3","4","5","6","7","8","9">>

\* datetime.utcnow().strftime("%Y%m%dT%H%M%SZ") at second t of the minute
\* the run starts in
strftime(t) ==
  <<"2","0","2","4","0","1","0","1","T","0","0","0","0">>
    \o <<Digits[(t \div 10) + 1], Digits[(t % 10) + 1], "Z">>

\* variant: the name leaves the branch out
tag_name_no_branch(branch, ts) == BackupPrefix \o ts

\* f"backup/{branch}/{ts}"
tag_name(branch, ts) == BackupPrefix \o branch \o <<"/">> \o ts

(***************************************************************************)
(* Operator input: the lines the operator may type at each prompt.          *)
(***************************************************************************)
\* branches that may exist locally, in the order `git branch` lists them
BranchOrder == <<Develop, Feat, Main, Master, Staging>>

\* the local branches a repository may start with
LocalUniverse == {Feat, Main, Master, Staging}

YesNoLines == {<<"y">>, <<" ","Y"," ">>, <<"n">>, <<"y","e","s">>, <<>>}

ChoiceLines == {<<"1">>, <<"2">>, <<"3">>, <<" ","3"," ">>, <<"4">>, <<>>}

BranchLines ==
  PROTECTED_BRANCHES \cup {Feat, Pad(Feat), Pad(Main), <<>>, <<" ">>}

\* the text each exact-text gate asks the operator for (b: the branch)
Asked(g, b) ==
  CASE g = "protected" -> <<"D","E","L","E","T","E"," ">> \o b
    [] g = "promote" ->
         <<"P","U","S","H"," ","S","T","A","G","I","N","G"," ","T","O"," ",
           "M","A","I","N">>
    [] OTHER -> b

\* what the operator may type at exact-text gate g
TypedLines(g, b) ==
  { Asked(g, b), Pad(Asked(g, b)), lower(Asked(g, b)), b, Capitalised(b),
    Asked("protected", b), Asked("protected", Capitalised(b)), <<>> }

\* variant: any answer that starts with y is taken as yes
confirm_yes(line) ==
  LET r == lower(strip(line)) IN r # <<>> /\ Head(r) = "y"

\* input().strip().lower() == "y"
confirm(line) == lower(strip(line)) = <<"y">>

\* variant: the comparison ignores case
typed_confirm_nocase(line, expected) == lower(strip(line)) = lower(expected)

\* input().strip() == expected
typed_confirm(line, expected) == strip(line) = expected


(***************************************************************************)
(* State.                                                                   *)
(***************************************************************************)
VARIABLES
  locals,    \* repository: the set of local branch names
  head,      \* repository: the checked-out branch (HEAD when detached)
  tags,      \* repository: the names of the tags
  log,       \* the audit log file: a sequence of [ts, kind, arg] lines
  now,       \* the UTC clock at its last reading, in seconds
  pc,        \* where the program stands: "menu", a prompt or a step
  left,      \* workflows the run may still start from the menu
  loc,       \* the running workflow's local variables
  step,      \* the workflow step in progress: pre, local, remote, promote
  cmds,      \* mutating git commands issued in this invocation, in order
  gate,      \* what the operator gave at each confirmation gate
  logged,    \* the step of each audit line written in this invocation
  logStart,  \* Len(log) when this invocation started
  shown,     \* the unique-commit warning was displayed in this invocation
  result     \* how the last invocation ended

vars ==
  <<locals, head, tags, log, now, pc, left, loc, step, cmds, gate, logged,
    logStart, shown, result>>

DetachedHead == <<"H","E","A","D">>

RepoRoot == <<"/","r","e","p","o">>

One   == <<"1">>
Two   == <<"2">>
Three == <<"3">>

GateNames ==
  {"protected", "switch", "delete", "force", "attempt", "remote", "dirty",
   "promote"}

NoTag == None

NoAnswer == [ans |-> "none", ncmds |-> 0, nlog |-> 0]

InitLoc ==
  [ repo_root |-> None, current |-> None, choice |-> None, branch |-> None,
    locals_ |-> <<>>, safe_target |-> None, primary |-> None,
    staging_local |-> FALSE, main_local |-> FALSE,
    staging_remote |-> FALSE, main_remote |-> FALSE,
    verdict |-> "none", remote_main |-> None, chosen_main |-> None,
    tag_branch |-> None, safe_tag |-> NoTag, on_remote |-> "none",
    publish |-> "none", ret |-> "menu" ]

Range(s) == {s[i] : i \in DOMAIN s}

RECURSIVE Listing(_, _)
\* the members of set S in the order of sequence ord
Listing(ord, S) ==
  IF ord = <<>> THEN <<>>
  ELSE IF Head(ord) \in S THEN <<Head(ord)>> \o Listing(Tail(ord), S)
       ELSE Listing(Tail(ord), S)

Init ==
  /\ locals \in SUBSET LocalUniverse
  /\ head \in locals \cup {DetachedHead}
  /\ tags = {}
  /\ log = <<>>
  /\ now = 0
  /\ pc = "menu"
  /\ left = 1
  /\ loc = InitLoc
  /\ step = "pre"
  /\ cmds = <<>>
  /\ gate = [g \in GateNames |-> NoAnswer]
  /\ logged = <<>>
  /\ logStart = 0
  /\ shown = FALSE
  /\ result = "none"

(***************************************************************************)
(* The git executable (run_git): what each call can return.                 *)
(***************************************************************************)
\* get_repo_root(): the top level, or None when git fails (a bare
\* repository, or a working directory inside .git)
RootOutcomes == {RepoRoot, None}

\* get_current_branch(): the branch, HEAD when detached, or None when HEAD
\* does not resolve (a repository without commits has no branch)
CurrentOutcomes == IF locals = {} THEN {None} ELSE {head}

\* list_local_branches(): the listing, or [] when git fails
LocalListings == {Listing(BranchOrder, locals), <<>>}

\* branch_exists_remote(): ls-remote is answered by the remote, afresh
RemoteAnswers == BOOLEAN

\* git branch -d/-D b: git refuses a missing or checked-out branch
DeleteOutcomes(b) == IF b \in locals /\ b # head THEN BOOLEAN ELSE {FALSE}

\* git checkout -b b origin/b: git refuses an existing branch name
CreateOutcomes(b) == IF b \in locals THEN {FALSE} ELSE BOOLEAN

\* git tag name branch: git refuses an existing tag name
TagOutcomes(t) == IF t \in tags THEN {FALSE} ELSE BOOLEAN

\* git merge-base --is-ancestor s t: a ref is an ancestor of itself
AncestorOutcomes(s, t) == IF s = t /\ s \in locals THEN {TRUE} ELSE BOOLEAN

\* variant: any primary counts, whatever git says of the ancestry
merge_safe_any_primary(primary, anc) == primary # None

\* variant: the return code of merge-base read the wrong way round
merge_safe_negated(primary, anc) == primary # None /\ ~anc

\* line 282: `primary and is_merged_into(branch, primary)`
merge_safe(primary, anc) == primary # None /\ anc

\* what git said of the branch: an ancestor of the primary or not, or no
\* primary to ask about
Verdict(primary, anc) ==
  IF primary = None THEN "unknown"
  ELSE IF anc THEN "merged" ELSE "unmerged"

\* variant: main is looked for before develop
choose_primary_branch_main_first(locals_) ==
  IF Main \in Range(locals_) THEN Main
  ELSE IF Develop \in Range(locals_) THEN Develop
  ELSE IF Master \in Range(locals_) THEN Master
  ELSE IF locals_ # <<>> THEN locals_[1]
  ELSE None

\* choose_primary_branch(), given the listing its query returned
choose_primary_branch(locals_) ==
  IF Develop \in Range(locals_) THEN Develop
  ELSE IF Main \in Range(locals_) THEN Main
  ELSE IF Master \in Range(locals_) THEN Master
  ELSE IF locals_ # <<>> THEN locals_[1]
  ELSE None

\* variant: the log file is opened for writing, not for appending
log_action_overwrite(repo_root, kind, arg, tag, t) ==
  IF repo_root = None
  THEN log' = log /\ logged' = logged
  ELSE /\ log' = <<[ts |-> t, kind |-> kind, arg |-> arg, tag |-> tag]>>
       /\ logged' = Append(logged, step)

\* log_action(repo_root, msg) when the clock reads t: no repository root,
\* no line; else one line stamped t
log_action(repo_root, kind, arg, tag, t) ==
  IF repo_root = None
  THEN log' = log /\ logged' = logged
  ELSE /\ log' = Append(log, [ts |-> t, kind |-> kind, arg |-> arg,
                              tag |-> tag])
       /\ logged' = Append(logged, step)

\* git checkout b: on success HEAD moves to b (a missing local branch is
\* created from its remote-tracking branch)
CheckoutEffect(b, ok) ==
  /\ head' = IF ok THEN b ELSE head
  /\ locals' = IF ok THEN locals \cup {b} ELSE locals

Return(r) == pc' = "menu" /\ result' = r

\* one executor call: the command, its argument, what git reported, and the
\* workflow step that issued it
Call(c, a, rc) == [cmd |-> c, arg |-> a, rc |-> rc, step |-> step]

Rc(ok) == IF ok THEN "ok" ELSE "failed"

Issue(c, a, ok) == Append(cmds, Call(c, a, Rc(ok)))

\* git pull origin b: its return code changes neither the program's course
\* nor the repository as modelled here, so the record keeps either outcome
Pull(b) == Call("pull", b, "any")

\* the operator's line is `expected` between blanks, and nothing else
TypedExactly(line, expected) ==
  \E i \in 0..Len(line) :
    /\ i + Len(expected) <= Len(line)
    /\ \A k \in 1..Len(line) :
         IF k <= i \/ k > i + Len(expected)
         THEN line[k] \in Whitespace
         ELSE line[k] = expected[k - i]

\* the operator typed what gate g asks for
Typed(g, line, b) == TypedExactly(line, Asked(g, b))

\* the operator's line is the affirmative token, in either case
Affirmative(line) == TypedExactly(line, <<"y">>) \/ TypedExactly(line, <<"Y">>)

\* gate g was answered: what the operator gave, and how many commands and
\* audit lines this invocation had issued by then
Answer(g, given) ==
  [gate EXCEPT ![g] =
     [ans |-> IF given THEN "yes" ELSE "no",
      ncmds |-> Len(cmds), nlog |-> Len(logged)]]


(***************************************************************************)
(* delete_branch                                                            *)
(***************************************************************************)
\* lines 237-240: check_git_repo, get_repo_root, get_current_branch
delete_branch_start ==
  /\ pc = "menu" /\ left > 0
  /\ left' = left - 1
  /\ step' = "pre" /\ cmds' = <<>> /\ logged' = <<>> /\ shown' = FALSE
  /\ gate' = [g \in GateNames |-> NoAnswer]
  /\ logStart' = Len(log)
  /\ \E inRepo \in BOOLEAN, repo_root \in RootOutcomes,
        current \in CurrentOutcomes :
       IF ~inRepo
       THEN loc' = InitLoc /\ Return("precond")
       ELSE /\ loc' = [InitLoc EXCEPT !.repo_root = repo_root,
                                      !.current = current]
            /\ pc' = "db_choice" /\ result' = "running"
  /\ UNCHANGED <<locals, head, tags, log, now>>

\* lines 245-248: the scope prompt
delete_branch_choice ==
  /\ pc = "db_choice"
  /\ \E line \in ChoiceLines :
       LET choice == strip(line) IN
       /\ loc' = [loc EXCEPT !.choice = choice]
       /\ IF choice \notin {One, Two, Three}
          THEN Return("invalid")
          ELSE pc' = "db_branch" /\ result' = result
  /\ UNCHANGED <<locals, head, tags, log, now, left, step, cmds, gate, logged,
                 logStart, shown>>

\* lines 250-256: the branch-name prompt and the protected-set test
delete_branch_name ==
  /\ pc = "db_branch"
  /\ \E line \in BranchLines :
       LET branch == strip(line) IN
       /\ loc' = [loc EXCEPT !.branch = branch]
       /\ IF branch = <<>>
          THEN Return("precond")
          ELSE /\ result' = result
               /\ pc' = IF branch \in PROTECTED_BRANCHES
                        THEN "db_protected" ELSE "db_local"
  /\ UNCHANGED <<locals, head, tags, log, now, left, step, cmds, gate, logged,
                 logStart, shown>>

\* lines 257-262: the protected-branch gate
delete_branch_protected ==
  /\ pc = "db_protected"
  /\ LET confirm_phrase == DeletePhrase(loc.branch) IN
     \E line \in TypedLines("protected", loc.branch) :
       /\ gate' = Answer("protected", Typed("protected", line, loc.branch))
       /\ IF ~typed_confirm(line, confirm_phrase)
          THEN Return("declined")
          ELSE pc' = "db_local" /\ result' = result
  /\ UNCHANGED <<locals, head, tags, log, now, left, loc, step, cmds, logged,
                 logStart, shown>>

\* lines 265-271: enter the local path; existence and current-branch tests
delete_branch_local ==
  /\ pc = "db_local"
  /\ IF loc.choice \in {One, Three}
     THEN /\ step' = "local"
          /\ \E l1 \in LocalListings :
               IF loc.branch \notin Range(l1)
               THEN pc' = "db_remote" /\ loc' = loc
               ELSE IF loc.branch = loc.current
               THEN \E l2 \in LocalListings :
                      /\ loc' = [loc EXCEPT
                                   !.locals_ = l2,
                                   !.safe_target = choose_primary_branch(l2)]
                      /\ pc' = "db_switch"
               ELSE pc' = "db_safety" /\ loc' = loc
     ELSE step' = step /\ pc' = "db_remote" /\ loc' = loc
  /\ UNCHANGED <<locals, head, tags, log, now, left, cmds, gate, logged,
                 logStart, shown, result>>

\* lines 272-278: offer to switch away from the branch being deleted
delete_branch_switch ==
  /\ pc = "db_switch"
  /\ \E line \in YesNoLines :
       /\ gate' = Answer("switch", Affirmative(line))
       /\ IF confirm(line)
          THEN IF loc.safe_target = None
               THEN \* run_git(["checkout", None]) raises TypeError
                    /\ pc' = "crashed" /\ result' = "crashed"
                    /\ UNCHANGED <<cmds, head, locals>>
               ELSE \E ok \in BOOLEAN :
                      /\ cmds' = Issue("checkout", loc.safe_target, ok)
                      /\ CheckoutEffect(loc.safe_target, ok)
                      /\ pc' = "db_safety" /\ result' = result
          ELSE Return("declined") /\ UNCHANGED <<cmds, head, locals>>
  /\ UNCHANGED <<tags, log, now, left, loc, step, logged, logStart, shown>>

\* lines 281-299: merge safety against the primary branch
delete_branch_safety ==
  /\ pc = "db_safety"
  /\ \E l \in LocalListings :
       LET primary == choose_primary_branch(l) IN
       \E anc \in (IF primary = None THEN {FALSE}
                   ELSE AncestorOutcomes(loc.branch, primary)) :
         /\ loc' = [loc EXCEPT !.locals_ = l, !.primary = primary,
                               !.verdict = Verdict(primary, anc)]
         /\ IF merge_safe(primary, anc)
            THEN pc' = "db_confirm" /\ shown' = shown
            ELSE pc' = "db_offer" /\ shown' = TRUE
  /\ UNCHANGED <<locals, head, tags, log, now, left, step, cmds, gate, logged,
                 logStart, result>>

\* lines 284-290: yes/no, then the non-forcing delete
delete_branch_confirm ==
  /\ pc = "db_confirm"
  /\ \E line \in YesNoLines :
       /\ gate' = Answer("delete", Affirmative(line))
       /\ IF confirm(line)
          THEN \E ok \in DeleteOutcomes(loc.branch) :
                 /\ cmds' = Issue("branch-d", loc.branch, ok)
                 /\ locals' = IF ok THEN locals \ {loc.branch} ELSE locals
                 /\ IF ok
                    THEN log_action(loc.repo_root, "Deleted local branch",
                                    loc.branch, NoTag, now)
                    ELSE UNCHANGED <<log, logged>>
          ELSE UNCHANGED <<cmds, locals, log, logged>>
  /\ pc' = "db_remote"
  /\ UNCHANGED <<head, tags, now, left, loc, step, logStart, shown, result>>

\* lines 300-303: offer a backup tag before the forced delete
delete_branch_offer ==
  /\ pc = "db_offer"
  /\ \E line \in YesNoLines :
       IF confirm(line)
       THEN /\ loc' = [loc EXCEPT !.tag_branch = loc.branch,
                                  !.ret = "db_force"]
            /\ pc' = "tag_create"
       ELSE loc' = loc /\ pc' = "db_force"
  /\ UNCHANGED <<locals, head, tags, log, now, left, step, cmds, gate, logged,
                 logStart, shown, result>>

\* lines 305-314: the typed-name gate, then the forced delete
delete_branch_force ==
  /\ pc = "db_force"
  /\ \E line \in TypedLines("force", loc.branch) :
       /\ gate' = Answer("force", Typed("force", line, loc.branch))
       /\ IF typed_confirm(line, loc.branch)
          THEN \E ok \in DeleteOutcomes(loc.branch) :
                 /\ cmds' = Issue("branch-D", loc.branch, ok)
                 /\ locals' = IF ok THEN locals \ {loc.branch} ELSE locals
                 /\ IF ok
                    THEN log_action(loc.repo_root,
                                    "Force-deleted local branch",
                                    loc.branch, NoTag, now)
                    ELSE UNCHANGED <<log, logged>>
          ELSE UNCHANGED <<cmds, locals, log, logged>>
  /\ pc' = "db_remote"
  /\ UNCHANGED <<head, tags, now, left, loc, step, logStart, shown, result>>

\* lines 317-328: enter the remote path; origin and remote-branch tests
delete_branch_remote ==
  /\ pc = "db_remote"
  /\ IF loc.choice \in {Two, Three}
     THEN /\ step' = "remote"
          /\ \E hasOrigin \in BOOLEAN, found \in RemoteAnswers :
               IF ~hasOrigin
               THEN Return("precond")
               ELSE /\ pc' = IF found THEN "db_rgate" ELSE "db_attempt"
                    /\ result' = result
     ELSE step' = step /\ Return("done")
  /\ UNCHANGED <<locals, head, tags, log, now, left, loc, cmds, gate, logged,
                 logStart, shown>>

\* lines 325-328: the branch is not on origin; attempt anyway?
delete_branch_attempt ==
  /\ pc = "db_attempt"
  /\ \E line \in YesNoLines :
       /\ gate' = Answer("attempt", Affirmative(line))
       /\ IF ~confirm(line)
          THEN Return("declined")
          ELSE pc' = "db_rgate" /\ result' = result
  /\ UNCHANGED <<locals, head, tags, log, now, left, loc, step, cmds, logged,
                 logStart, shown>>

\* lines 331-341: the typed-name gate, then the remote delete
delete_branch_rgate ==
  /\ pc = "db_rgate"
  /\ \E line \in TypedLines("remote", loc.branch) :
       /\ gate' = Answer("remote", Typed("remote", line, loc.branch))
       /\ IF ~typed_confirm(line, loc.branch)
          THEN Return("declined") /\ UNCHANGED <<cmds, log, logged>>
          ELSE \E ok \in BOOLEAN :
                 /\ cmds' = Issue("push-delete", loc.branch, ok)
                 /\ Return("done")
                 /\ IF ok
                    THEN log_action(loc.repo_root, "Deleted remote branch",
                                    loc.branch, NoTag, now)
                    ELSE UNCHANGED <<log, logged>>
  /\ UNCHANGED <<locals, head, tags, now, left, loc, step, logStart, shown>>

(***************************************************************************)
(* create_backup_tag                                                        *)
(***************************************************************************)
\* variant: the publish offer does not look at the remote
create_backup_tag_create_always_offer ==
  /\ pc = "tag_create"
  /\ now' \in now..MaxTime
  /\ LET safe_tag == tag_name(loc.tag_branch, strftime(now')) IN
     \E ok \in TagOutcomes(safe_tag) :
       /\ cmds' = Issue("tag", loc.tag_branch, ok)
       /\ IF ~ok
          THEN /\ pc' = loc.ret /\ loc' = loc
               /\ UNCHANGED <<tags, log, logged>>
          ELSE /\ tags' = tags \cup {safe_tag}
               /\ log_action(loc.repo_root, "Created backup tag",
                             loc.tag_branch, safe_tag, now')
               /\ \E onRemote \in RemoteAnswers :
                    /\ loc' = [loc EXCEPT
                                 !.safe_tag = safe_tag,
                                 !.on_remote = IF onRemote THEN "yes"
                                               ELSE "no"]
                    /\ pc' = IF TRUE THEN "tag_push" ELSE loc.ret
  /\ UNCHANGED <<locals, head, left, step, gate, logStart, shown, result>>

\* lines 115-123: create the tag, log it, look the branch up on origin
create_backup_tag_create ==
  /\ pc = "tag_create"
  /\ now' \in now..MaxTime
  /\ LET safe_tag == tag_name(loc.tag_branch, strftime(now')) IN
     \E ok \in TagOutcomes(safe_tag) :
       /\ cmds' = Issue("tag", loc.tag_branch, ok)
       /\ IF ~ok
          THEN /\ pc' = loc.ret /\ loc' = loc
               /\ UNCHANGED <<tags, log, logged>>
          ELSE /\ tags' = tags \cup {safe_tag}
               /\ log_action(loc.repo_root, "Created backup tag",
                             loc.tag_branch, safe_tag, now')
               /\ \E onRemote \in RemoteAnswers :
                    /\ loc' = [loc EXCEPT
                                 !.safe_tag = safe_tag,
                                 !.on_remote = IF onRemote THEN "yes"
                                               ELSE "no"]
                    /\ pc' = IF onRemote THEN "tag_push" ELSE loc.ret
  /\ UNCHANGED <<locals, head, left, step, gate, logStart, shown, result>>

\* variant: a publish that fails takes the local tag back
create_backup_tag_push_rollback ==
  /\ pc = "tag_push"
  /\ \E line \in YesNoLines :
       /\ loc' = [loc EXCEPT !.publish = IF Affirmative(line) THEN "yes"
                                         ELSE "no"]
       /\ IF confirm(line)
          THEN \E ok \in BOOLEAN :
                 /\ cmds' = Issue("push-tag", loc.tag_branch, ok)
                 /\ tags' = IF ok THEN tags ELSE tags \ {loc.safe_tag}
                 /\ IF ok
                    THEN log_action(loc.repo_root, "Pushed tag",
                                    loc.tag_branch, loc.safe_tag, now)
                    ELSE UNCHANGED <<log, logged>>
          ELSE UNCHANGED <<cmds, tags, log, logged>>
  /\ pc' = loc.ret
  /\ UNCHANGED <<locals, head, now, left, step, gate, logStart,
                 shown, result>>

\* lines 124-131: offer to publish the tag
create_backup_tag_push ==
  /\ pc = "tag_push"
  /\ \E line \in YesNoLines :
       /\ loc' = [loc EXCEPT !.publish = IF Affirmative(line) THEN "yes"
                                         ELSE "no"]
       /\ IF confirm(line)
          THEN \E ok \in BOOLEAN :
                 /\ cmds' = Issue("push-tag", loc.tag_branch, ok)
                 /\ IF ok
                    THEN log_action(loc.repo_root, "Pushed tag",
                                    loc.tag_branch, loc.safe_tag, now)
                    ELSE UNCHANGED <<log, logged>>
          ELSE UNCHANGED <<cmds, log, logged>>
  /\ pc' = loc.ret
  /\ UNCHANGED <<locals, head, tags, now, left, step, gate, logStart,
                 shown, result>>

(***************************************************************************)
(* push_staging_to_main                                                     *)
(***************************************************************************)
\* lines 346-354: check_git_repo, get_repo_root, the four existence queries
push_staging_to_main_start ==
  /\ pc = "menu" /\ left > 0
  /\ left' = left - 1
  /\ step' = "promote" /\ cmds' = <<>> /\ logged' = <<>> /\ shown' = FALSE
  /\ gate' = [g \in GateNames |-> NoAnswer]
  /\ logStart' = Len(log)
  /\ \E inRepo \in BOOLEAN, repo_root \in RootOutcomes,
        l1 \in LocalListings, l2 \in LocalListings, l3 \in LocalListings,
        r1 \in RemoteAnswers, r2 \in RemoteAnswers, r3 \in RemoteAnswers :
       IF ~inRepo
       THEN loc' = InitLoc /\ Return("precond")
       ELSE /\ loc' = [InitLoc EXCEPT
                 !.repo_root = repo_root,
                 !.staging_local = Staging \in Range(l1),
                 !.main_local = Main \in Range(l2) \/ Master \in Range(l3),
                 !.staging_remote = r1,
                 !.main_remote = r2 \/ r3]
            /\ pc' = "ps_staging" /\ result' = "running"
  /\ UNCHANGED <<locals, head, tags, log, now>>

\* lines 356-362: offer a tracking branch for staging
push_staging_to_main_staging ==
  /\ pc = "ps_staging"
  /\ IF ~loc.staging_local /\ loc.staging_remote
     THEN \E line \in YesNoLines :
            IF confirm(line)
            THEN \E ok \in CreateOutcomes(Staging) :
                   /\ cmds' = Issue("checkout-b", Staging, ok)
                   /\ CheckoutEffect(Staging, ok)
                   /\ IF ~ok
                      THEN Return("failed") /\ loc' = loc
                      ELSE /\ loc' = [loc EXCEPT !.staging_local = TRUE]
                           /\ pc' = "ps_main" /\ result' = result
            ELSE /\ pc' = "ps_main"
                 /\ UNCHANGED <<cmds, head, locals, loc, result>>
     ELSE /\ pc' = "ps_main"
          /\ UNCHANGED <<cmds, head, locals, loc, result>>
  /\ UNCHANGED <<tags, log, now, left, step, gate, logged, logStart, shown>>

\* lines 364-372: offer a tracking branch for main or master
push_staging_to_main_main ==
  /\ pc = "ps_main"
  /\ IF ~loc.main_local /\ loc.main_remote
     THEN \E r \in RemoteAnswers, line \in YesNoLines :
            LET remote_main == IF r THEN Main ELSE Master IN
            IF confirm(line)
            THEN \E ok \in CreateOutcomes(remote_main) :
                   /\ cmds' = Issue("checkout-b", remote_main, ok)
                   /\ CheckoutEffect(remote_main, ok)
                   /\ IF ~ok
                      THEN /\ Return("failed")
                           /\ loc' = [loc EXCEPT !.remote_main = remote_main]
                      ELSE /\ loc' = [loc EXCEPT !.remote_main = remote_main,
                                                 !.main_local = TRUE]
                           /\ pc' = "ps_found" /\ result' = result
            ELSE /\ pc' = "ps_found"
                 /\ loc' = [loc EXCEPT !.remote_main = remote_main]
                 /\ UNCHANGED <<cmds, head, locals, result>>
     ELSE /\ pc' = "ps_found"
          /\ UNCHANGED <<cmds, head, locals, loc, result>>
  /\ UNCHANGED <<tags, log, now, left, step, gate, logged, logStart, shown>>

\* lines 374-383: both roles resolved? is the working tree clean?
push_staging_to_main_found ==
  /\ pc = "ps_found"
  /\ IF ~(loc.staging_local \/ loc.staging_remote)
     THEN Return("precond")
     ELSE IF ~(loc.main_local \/ loc.main_remote)
     THEN Return("precond")
     ELSE \E is_working_tree_clean \in BOOLEAN :
            /\ pc' = IF is_working_tree_clean THEN "ps_sync" ELSE "ps_dirty"
            /\ result' = result
  /\ UNCHANGED <<locals, head, tags, log, now, left, loc, step, cmds, gate,
                 logged, logStart, shown>>

\* lines 384-386: proceed despite uncommitted changes?
push_staging_to_main_dirty ==
  /\ pc = "ps_dirty"
  /\ \E line \in YesNoLines :
       /\ gate' = Answer("dirty", Affirmative(line))
       /\ IF ~confirm(line)
          THEN Return("declined")
          ELSE pc' = "ps_sync" /\ result' = result
  /\ UNCHANGED <<locals, head, tags, log, now, left, loc, step, cmds, logged,
                 logStart, shown>>

\* lines 389-394: check out and pull staging, then the chosen main
push_staging_to_main_sync ==
  /\ pc = "ps_sync"
  /\ \E ok1 \in BOOLEAN, ok3 \in BOOLEAN,
        l \in LocalListings, r \in RemoteAnswers :
       LET staged == IF ok1 THEN locals \cup {Staging} ELSE locals
           listed == IF l = <<>> THEN l ELSE Listing(BranchOrder, staged)
           chosen_main == IF Main \in Range(listed) \/ r
                          THEN Main ELSE Master
       IN
       /\ cmds' = cmds \o
            << Call("checkout", Staging, Rc(ok1)), Pull(Staging),
               Call("checkout", chosen_main, Rc(ok3)), Pull(chosen_main) >>
       /\ head' = IF ok3 THEN chosen_main
                  ELSE IF ok1 THEN Staging ELSE head
       /\ locals' = IF ok3 THEN staged \cup {chosen_main} ELSE staged
       /\ loc' = [loc EXCEPT !.chosen_main = chosen_main]
  /\ pc' = "ps_offer"
  /\ UNCHANGED <<tags, log, now, left, step, gate, logged, logStart, shown,
                 result>>

\* lines 397-400: offer a backup tag on the chosen main
push_staging_to_main_offer ==
  /\ pc = "ps_offer"
  /\ \E line \in YesNoLines :
       IF confirm(line)
       THEN /\ loc' = [loc EXCEPT !.tag_branch = loc.chosen_main,
                                  !.ret = "ps_gate"]
            /\ pc' = "tag_create"
       ELSE loc' = loc /\ pc' = "ps_gate"
  /\ UNCHANGED <<locals, head, tags, log, now, left, step, cmds, gate, logged,
                 logStart, shown, result>>

\* variant: the merge's return code is not looked at
push_staging_to_main_gate_merge_unchecked ==
  /\ pc = "ps_gate"
  /\ \E line \in TypedLines("promote", loc.chosen_main) :
       /\ gate' = Answer("promote", Typed("promote", line, loc.chosen_main))
       /\ IF ~typed_confirm(line, PushPhrase)
          THEN Return("declined") /\ cmds' = cmds
          ELSE \E ok \in BOOLEAN :
                 /\ cmds' = Issue("merge", Staging, ok)
                 /\ pc' = "ps_push" /\ result' = result
  /\ UNCHANGED <<locals, head, tags, log, now, left, loc, step, logged,
                 logStart, shown>>

\* lines 403-416: the typed-phrase gate, then the merge
push_staging_to_main_gate ==
  /\ pc = "ps_gate"
  /\ \E line \in TypedLines("promote", loc.chosen_main) :
       /\ gate' = Answer("promote", Typed("promote", line, loc.chosen_main))
       /\ IF ~typed_confirm(line, PushPhrase)
          THEN Return("declined") /\ cmds' = cmds
          ELSE \E ok \in BOOLEAN :
                 /\ cmds' = Issue("merge", Staging, ok)
                 /\ IF ~ok
                    THEN Return("merge_failed")
                    ELSE pc' = "ps_push" /\ result' = result
  /\ UNCHANGED <<locals, head, tags, log, now, left, loc, step, logged,
                 logStart, shown>>

\* lines 419-424: push the chosen main to origin
push_staging_to_main_push ==
  /\ pc = "ps_push"
  /\ \E ok \in BOOLEAN :
       /\ cmds' = Issue("push", loc.chosen_main, ok)
       /\ IF ok
          THEN log_action(loc.repo_root, "Merged staging into",
                          loc.chosen_main, NoTag, now)
          ELSE UNCHANGED <<log, logged>>
  /\ Return("done")
  /\ UNCHANGED <<locals, head, tags, now, left, loc, step, gate, logStart,
                 shown>>

Next ==
  \/ delete_branch_start
  \/ delete_branch_choice
  \/ delete_branch_name
  \/ delete_branch_protected
  \/ delete_branch_local
  \/ delete_branch_switch
  \/ delete_branch_safety
  \/ delete_branch_confirm
  \/ delete_branch_offer
  \/ delete_branch_force
  \/ delete_branch_remote
  \/ delete_branch_attempt
  \/ delete_branch_rgate
  \/ create_backup_tag_create
  \/ create_backup_tag_push
  \/ push_staging_to_main_start
  \/ push_staging_to_main_staging
  \/ push_staging_to_main_main
  \/ push_staging_to_main_found
  \/ push_staging_to_main_dirty
  \/ push_staging_to_main_sync
  \/ push_staging_to_main_offer
  \/ push_staging_to_main_gate
  \/ push_staging_to_main_push

Spec == Init /\ [][Next]_vars

\* the audit line create_backup_tag writes for a tag of branch b at second t
CreatedLine(b, t) ==
  [ts |-> t, kind |-> "Created backup tag", arg |-> b,
   tag |-> tag_name(b, strftime(t))]

RECURSIVE CreatedLines(_)
CreatedLines(bs) ==
  IF bs = <<>> THEN <<>>
  ELSE <<CreatedLine(Head(bs), 0)>> \o CreatedLines(Tail(bs))

\* the menu loop taken up between two workflows: the repository and the
\* audit log are as earlier workflows left them, with backup tags of that
\* second for some of the branches and, when the repository root was known
\* to them, the audit lines of those tags
InitRun ==
  /\ locals = {Feat, Main}
  /\ head = Main
  /\ \E earlier \in SUBSET {Feat, Main}, rooted \in BOOLEAN :
       /\ tags = {tag_name(b, strftime(0)) : b \in earlier}
       /\ log = IF rooted THEN CreatedLines(Listing(BranchOrder, earlier))
                ELSE <<>>
  /\ now = 0
  /\ pc = "menu"
  /\ left = 1
  /\ loc = InitLoc
  /\ step = "pre"
  /\ cmds = <<>>
  /\ gate = [g \in GateNames |-> NoAnswer]
  /\ logged = <<>>
  /\ logStart = 0
  /\ shown = FALSE
  /\ result = "none"

SpecRun == InitRun /\ [][Next]_vars

\* branch names with a path separator: feat/main, main/feat, and a name
\* that ends like a timestamp
Slashed(a, b) == a \o <<"/">> \o b

TagBranches ==
  {Feat, Main, Slashed(Feat, Main), Slashed(Main, Feat),
   Slashed(Feat, strftime(0))}

\* the backup tags earlier runs may have left in the repository
EarlierTags ==
  {tag_name(b, strftime(t)) : b \in {Feat, Slashed(Feat, Main)},
                              t \in 0..MaxTime}

\* create_backup_tag called by delete_branch for any branch name: a local
\* delete of an unmerged branch, taken up where the operator has accepted
\* the backup-tag offer (line 301)
InitTag ==
  /\ \E b \in TagBranches, repo_root \in RootOutcomes :
       /\ locals = {b} \cup {Main}
       /\ loc = [InitLoc EXCEPT !.repo_root = repo_root, !.current = Main,
                                !.choice = One, !.branch = b,
                                !.primary = None, !.verdict = "unknown",
                                !.tag_branch = b, !.ret = "db_force"]
  /\ head = Main
  /\ tags \in SUBSET EarlierTags
  /\ log = <<>>
  /\ now \in 0..MaxTime
  /\ pc = "tag_create"
  /\ left = 0
  /\ step = "local"
  /\ cmds = <<>>
  /\ gate = [g \in GateNames |-> NoAnswer]
  /\ logged = <<>>
  /\ logStart = 0
  /\ shown = TRUE
  /\ result = "running"

NextTag ==
  \/ create_backup_tag_create
  \/ create_backup_tag_push
  \/ delete_branch_force
  \/ delete_branch_remote

SpecTag == InitTag /\ [][NextTag]_vars

\* choose_primary_branch over every set of local branches, develop
\* included: a delete taken up where the local path is entered (line 265),
\* for any existing target, checked out or not
InitPrimary ==
  /\ locals \in SUBSET Range(BranchOrder)
  /\ head \in locals \cup {DetachedHead}
  /\ \E b \in locals, repo_root \in RootOutcomes, choice \in {One, Three} :
       /\ loc = [InitLoc EXCEPT !.repo_root = repo_root, !.current = head,
                                !.choice = choice, !.branch = b]
       /\ gate = [g \in GateNames |->
                    IF g = "protected" /\ b \in PROTECTED_BRANCHES
                    THEN [ans |-> "yes", ncmds |-> 0, nlog |-> 0]
                    ELSE NoAnswer]
  /\ tags = {}
  /\ log = <<>>
  /\ now = 0
  /\ pc = "db_local"
  /\ left = 0
  /\ step = "pre"
  /\ cmds = <<>>
  /\ logged = <<>>
  /\ logStart = 0
  /\ shown = FALSE
  /\ result = "running"

NextPrimary ==
  \/ delete_branch_local
  \/ delete_branch_switch
  \/ delete_branch_safety

SpecPrimary == InitPrimary /\ [][NextPrimary]_vars

(***************************************************************************)
(* Properties.                                                              *)
(***************************************************************************)
DeleteCmds == {"branch-d", "branch-D", "push-delete"}

\* the audit lines written in this invocation
NewLines == SubSeq(log, logStart + 1, Len(log))

PromotionLogged ==
  \E k \in DOMAIN NewLines : NewLines[k].kind = "Merged staging into"

\* C1: for a protected branch, unless the operator typed exactly
\* `DELETE <branch>` (trimmed, case-sensitive) at the protected gate, no
\* branch -d, branch -D or push origin --delete is issued in the invocation,
\* whatever the scope.
C1_ProtectedGateGuardsDeletes ==
  (loc.branch \in PROTECTED_BRANCHES /\ gate["protected"].ans # "yes")
    => \A i \in DOMAIN cmds : cmds[i].cmd \notin DeleteCmds

C1_Witness ==
  /\ pc = "menu" /\ loc.branch = Main /\ loc.choice = Three
  /\ Main \in locals
  /\ gate["protected"].ans = "no"

\* C2: when git reports the target not merged into the primary, or no
\* primary could be determined, branch -D is issued only after the operator
\* typed exactly the branch name at the force-delete gate, and branch -d is
\* never issued.
C2_ForceDeleteNeedsTypedName ==
  loc.verdict \in {"unmerged", "unknown"}
    => \A i \in DOMAIN cmds :
         /\ cmds[i].cmd # "branch-d"
         /\ cmds[i].cmd = "branch-D"
              => /\ gate["force"].ans = "yes"
                 /\ gate["force"].ncmds < i
                 /\ cmds[i].arg = loc.branch

C2_Witness ==
  /\ loc.verdict = "unknown"
  /\ \E i \in DOMAIN cmds : cmds[i].cmd = "branch-D" /\ cmds[i].rc = "ok"
  /\ \E j \in DOMAIN cmds : cmds[j].cmd = "tag"

C2_WitnessUnmerged ==
  /\ loc.verdict = "unmerged"
  /\ \E i \in DOMAIN cmds : cmds[i].cmd = "branch-D" /\ cmds[i].rc = "ok"

\* C3: when git reports the target merged into the chosen primary, the local
\* path issues no delete but branch -d, and that only after an affirmative
\* yes/no answer; the unique-commit warning, the backup-tag offer and the
\* typed-name gate are never reached.
C3_MergedUsesPlainDelete ==
  loc.verdict = "merged"
    => /\ \A i \in DOMAIN cmds :
            cmds[i].step = "local"
              => /\ cmds[i].cmd \in {"checkout", "branch-d"}
                 /\ cmds[i].cmd = "branch-d"
                      => /\ gate["delete"].ans = "yes"
                         /\ gate["delete"].ncmds < i
                         /\ cmds[i].arg = loc.branch
       /\ ~shown
       /\ gate["force"].ans = "none"
       /\ pc \notin {"db_offer", "db_force", "tag_create", "tag_push"}

C3_Witness ==
  /\ loc.verdict = "merged"
  /\ \E i \in DOMAIN cmds : cmds[i].cmd = "branch-d" /\ cmds[i].rc = "ok"
  /\ loc.branch \notin locals

\* C4: push origin --delete is issued only after the operator typed exactly
\* the branch name at the remote-delete gate, whether or not the protected
\* gate was passed, the branch was found on origin, or the local path acted.
C4_RemoteDeleteNeedsTypedName ==
  \A i \in DOMAIN cmds :
    cmds[i].cmd = "push-delete"
      => /\ gate["remote"].ans = "yes"
         /\ gate["remote"].ncmds < i
         /\ cmds[i].arg = loc.branch

C4_Witness ==
  /\ \E i \in DOMAIN cmds : cmds[i].cmd = "push-delete"
  /\ gate["protected"].ans = "yes"
  /\ gate["attempt"].ans = "yes"
  /\ \E j \in DOMAIN cmds : cmds[j].cmd = "branch-D" /\ cmds[j].rc = "ok"

\* the steps a gate guards
Guarded(g) ==
  CASE g = "protected" -> {"pre", "local", "remote"}
    [] g \in {"switch", "delete", "force"} -> {"local"}
    [] g \in {"attempt", "remote"} -> {"remote"}
    [] OTHER -> {"promote"}

\* commands and audit lines of the steps gate g guards, from position n on
CmdsOf(g, n) ==
  {i \in DOMAIN cmds : i > n /\ cmds[i].step \in Guarded(g)}

LinesOf(g, n) ==
  {k \in DOMAIN logged : k > n /\ logged[k] \in Guarded(g)}

\* C5 as stated: a declined or mismatched answer at a gate leaves the step
\* that gate guards with no mutating command and no audit line at all,
\* counted from the start of the step.  Stated here for every gate but the
\* dirty-tree gate, whose case is C8's.
C5_DeclineLeavesStepUntouched ==
  \A g \in GateNames \ {"dirty"} :
    gate[g].ans = "no" => CmdsOf(g, 0) = {} /\ LinesOf(g, 0) = {}

\* C5 amended: after a declined or mismatched answer at a gate, the step
\* that gate guards issues no further mutating command and writes no further
\* audit line; at the protected, switch, not-found and remote-name gates the
\* step has issued and written nothing at all.
C5_NothingAfterDecline ==
  \A g \in GateNames :
    gate[g].ans = "no"
      => /\ CmdsOf(g, gate[g].ncmds) = {}
         /\ LinesOf(g, gate[g].nlog) = {}
         /\ g \in {"protected", "switch", "attempt", "remote"}
              => CmdsOf(g, 0) = {} /\ LinesOf(g, 0) = {}

C5_Witness ==
  /\ pc = "menu" /\ loc.choice = Three
  /\ gate["force"].ans = "no"
  /\ \E i \in DOMAIN cmds :
       cmds[i].cmd = "tag" /\ cmds[i].rc = "ok" /\ cmds[i].step = "local"
  /\ \E j \in DOMAIN cmds : cmds[j].cmd = "push-delete"
  /\ logged # <<>>

\* C6: merge staging and push origin <chosen main> are issued only after the
\* operator typed exactly PUSH STAGING TO MAIN at the final gate; otherwise
\* neither is issued and no promotion line is written.
C6_PromoteNeedsTypedPhrase ==
  /\ \A i \in DOMAIN cmds :
       cmds[i].cmd \in {"merge", "push"}
         => gate["promote"].ans = "yes" /\ gate["promote"].ncmds < i
  /\ PromotionLogged => gate["promote"].ans = "yes"

C6_Witness ==
  /\ gate["promote"].ans = "yes"
  /\ \E i \in DOMAIN cmds : cmds[i].cmd = "merge" /\ cmds[i].rc = "ok"
  /\ \E j \in DOMAIN cmds :
       cmds[j].cmd = "push" /\ cmds[j].arg = loc.chosen_main
  /\ PromotionLogged

C6_WitnessRefused ==
  pc = "menu" /\ gate["promote"].ans = "no" /\ step = "promote"

\* C7: when git reports failure for merge staging, the push of the chosen
\* main is never issued in the invocation and no promotion line is written.
C7_MergeFailureStopsPush ==
  (\E i \in DOMAIN cmds : cmds[i].cmd = "merge" /\ cmds[i].rc = "failed")
    => /\ \A j \in DOMAIN cmds : cmds[j].cmd # "push"
       /\ ~PromotionLogged
       /\ pc = "menu"

C7_Witness ==
  /\ pc = "menu" /\ result = "merge_failed"
  /\ \E i \in DOMAIN cmds : cmds[i].cmd = "merge" /\ cmds[i].rc = "failed"

\* C8: when the working tree is not clean and the operator declines to
\* proceed, no checkout or pull has been issued in the invocation.
C8_DirtyAbortBeforeCheckout ==
  gate["dirty"].ans = "no"
    => \A i \in DOMAIN cmds :
         cmds[i].cmd \notin {"checkout", "checkout-b", "pull"}

\* the kind of audit line each recorded action writes
ActionKind(c) ==
  CASE c = "branch-d" -> "Deleted local branch"
    [] c = "branch-D" -> "Force-deleted local branch"
    [] c = "push-delete" -> "Deleted remote branch"
    [] OTHER -> "Merged staging into"

ActionCmds == DeleteCmds \cup {"push"}

ActionKinds == {ActionKind(c) : c \in ActionCmds}

RECURSIVE Succeeded(_)
\* the action lines the successful deletes and promotion pushes call for
Succeeded(cs) ==
  IF cs = <<>> THEN <<>>
  ELSE IF Head(cs).cmd \in ActionCmds /\ Head(cs).rc = "ok"
       THEN <<[kind |-> ActionKind(Head(cs).cmd), arg |-> Head(cs).arg]>>
              \o Succeeded(Tail(cs))
       ELSE Succeeded(Tail(cs))

RECURSIVE ActionLines(_)
\* the action lines found in a piece of the audit log
ActionLines(ls) ==
  IF ls = <<>> THEN <<>>
  ELSE IF Head(ls).kind \in ActionKinds
       THEN <<[kind |-> Head(ls).kind, arg |-> Head(ls).arg]>>
              \o ActionLines(Tail(ls))
       ELSE ActionLines(Tail(ls))

\* C9: the audit log receives exactly one action line for each delete and
\* each promotion push git reports successful, and none for a failed one,
\* whatever git returns (the repository-root query included).
C9_EverySuccessLogged == ActionLines(NewLines) = Succeeded(cmds)

\* C10: when a workflow aborts on a precondition failure (not in a
\* repository, origin not configured, empty branch name, staging or
\* main/master found nowhere), no mutating command has been issued and no
\* audit line written in the invocation.
C10_PreconditionAbortIsClean ==
  (pc = "menu" /\ result = "precond")
    => cmds = <<>> /\ Len(log) = logStart

\* C11: with scope both, when the target is the current branch and the
\* operator declines the switch, only the local path is given up: the
\* invocation does not end before the remote path has been entered.
C11_DeclinedSwitchStillEntersRemote ==
  (pc = "menu" /\ loc.choice = Three /\ gate["switch"].ans = "no")
    => step = "remote"

\* C12: every invocation comes back to the menu loop: whatever the operator
\* types and whatever git returns, a workflow that has not returned can take
\* a further step, and nothing but the startup check ends the process.
C12_InvocationReturnsToMenu == pc = "menu" \/ ENABLED Next

\* the last command issued in this invocation
LastCmd == cmds[Len(cmds)]

\* C13: the set of backup tags only grows, step by step, whatever earlier
\* workflows left behind; a create_backup_tag call whose name is already taken (same
\* branch, same second) fails, writes nothing and leaves the tags as they
\* were.
C13_TagsOnlyGrow ==
  [][ /\ tags \subseteq tags'
      /\ (pc = "tag_create"
          /\ tag_name(loc.tag_branch, strftime(now')) \in tags)
           => /\ tags' = tags
              /\ LastCmd'.cmd = "tag" /\ LastCmd'.rc = "failed"
              /\ log' = log
              /\ pc' = loc.ret ]_vars

C13_Witness ==
  /\ cmds # <<>> /\ LastCmd.cmd = "tag" /\ LastCmd.rc = "failed"
  /\ tag_name(loc.tag_branch, strftime(now)) \in tags
  /\ logStart > 0

LogKinds ==
  {"Deleted local branch", "Force-deleted local branch",
   "Deleted remote branch", "Created backup tag", "Pushed tag",
   "Merged staging into"}

\* C14: the audit log is append-only, whatever earlier workflows wrote: every
\* step leaves the log as it was or adds exactly one line at its end, and
\* the added line carries the clock's reading and one of the messages.
C14_LogAppendOnly ==
  [][ \/ log' = log
      \/ /\ Len(log') = Len(log) + 1
         /\ SubSeq(log', 1, Len(log)) = log
         /\ log'[Len(log')].ts = now'
         /\ log'[Len(log')].kind \in LogKinds ]_vars

C14_Witness ==
  /\ logStart > 0 /\ Len(log) > logStart + 1
  /\ log[1].kind = "Created backup tag"

\* C15: the tag name is injective in the branch name for a fixed timestamp:
\* the name create_backup_tag gave the tag it created differs from the name
\* of a tag for any other branch in the same second, names with a path
\* separator included.
C15_TagNameInjective ==
  loc.safe_tag # NoTag
    => /\ loc.safe_tag = tag_name(loc.tag_branch, strftime(now))
       /\ \A b \in TagBranches :
            b # loc.tag_branch => tag_name(b, strftime(now)) # loc.safe_tag

C15_Witness ==
  /\ loc.safe_tag # NoTag
  /\ loc.tag_branch = Slashed(Feat, strftime(0))
  /\ now = 0
  /\ tag_name(Feat, strftime(now)) \in tags
  /\ tag_name(Slashed(Feat, Main), strftime(now)) \in tags
  /\ Cardinality(tags) = 3

\* the kinds of audit line written in this invocation
Logged(kind) == \E k \in DOMAIN NewLines : NewLines[k].kind = kind

\* C16: a failed tag creation returns no tag, writes no audit line and
\* leads to no publish offer or attempt; after a successful one the tag is
\* pushed only when origin has the branch and the operator answered yes, a
\* publish line is written only when that push succeeded, and a failed
\* publish still hands the created tag back to the caller, which goes on to
\* its confirmation gate.
C16_BackupTagOutcomes ==
  /\ (\E i \in DOMAIN cmds : cmds[i].cmd = "tag" /\ cmds[i].rc = "failed")
       => /\ loc.safe_tag = NoTag
          /\ ~Logged("Created backup tag")
          /\ loc.on_remote = "none" /\ loc.publish = "none"
          /\ pc # "tag_push"
          /\ \A j \in DOMAIN cmds : cmds[j].cmd # "push-tag"
  /\ \A j \in DOMAIN cmds :
       cmds[j].cmd = "push-tag"
         => /\ loc.on_remote = "yes" /\ loc.publish = "yes"
            /\ \E i \in 1..(j - 1) : cmds[i].cmd = "tag" /\ cmds[i].rc = "ok"
  /\ Logged("Pushed tag")
       => \E j \in DOMAIN cmds : cmds[j].cmd = "push-tag" /\ cmds[j].rc = "ok"
  /\ (cmds # <<>> /\ LastCmd.cmd = "push-tag" /\ LastCmd.rc = "failed")
       => /\ loc.safe_tag # NoTag /\ loc.safe_tag \in tags
          /\ \/ pc = "db_force" /\ loc.ret = "db_force"
             \/ pc = "ps_gate" /\ loc.ret = "ps_gate"
             \/ gate["force"].ans # "none" /\ loc.ret = "db_force"
             \/ gate["promote"].ans # "none" /\ loc.ret = "ps_gate"

C16_Witness ==
  /\ pc = "ps_gate" /\ cmds # <<>>
  /\ LastCmd.cmd = "push-tag" /\ LastCmd.rc = "failed"
  /\ Logged("Created backup tag")

C16_WitnessCreationFailed ==
  /\ pc = "db_force" /\ cmds # <<>>
  /\ LastCmd.cmd = "tag" /\ LastCmd.rc = "failed"

\* C17: merge staging is issued only while the chosen main is checked out:
\* when git reports the checkout of staging or of the chosen main as failed,
\* the workflow stops, and neither the merge nor the push is issued.
C17_MergeOnlyOnChosenMain ==
  \A i \in DOMAIN cmds :
    cmds[i].cmd \in {"merge", "push"}
      => /\ head = loc.chosen_main
         /\ \A j \in 1..(i - 1) :
              (cmds[j].cmd = "checkout" /\ cmds[j].step = "promote")
                => cmds[j].rc = "ok"

\* C18: branch -d or branch -D for the target is issued only while the
\* target is not the checked-out branch: when the target was the current
\* branch at the start, a successful checkout of a different branch comes
\* before the delete command.
C18_DeleteNotCurrentBranch ==
  (pc = "db_remote" /\ cmds # <<>>
   /\ LastCmd.cmd \in {"branch-d", "branch-D"})
    => /\ head # loc.branch
       /\ loc.branch = loc.current
            => \E j \in 1..(Len(cmds) - 1) :
                 /\ cmds[j].cmd = "checkout" /\ cmds[j].rc = "ok"
                 /\ cmds[j].arg # loc.branch

\* C19: the chosen main reference is the locally present branch: when
\* exactly one of main and master exists locally as the branches are
\* synchronised, that one is chosen (checked out, pulled, merged into,
\* pushed), whatever origin holds.
C19_LocalMainPreferred ==
  [][ pc = "ps_sync"
        => /\ (Master \in locals /\ Main \notin locals)
                => loc'.chosen_main = Master
           /\ (Main \in locals /\ Master \notin locals)
                => loc'.chosen_main = Main ]_vars

C20_WitnessOther ==
  /\ pc = "db_switch"
  /\ loc.safe_target = Feat
  /\ locals = {Feat, Staging}

\* C21: in the local path the primary branch that merge safety is judged
\* against is never the branch being deleted, so no branch is classified as
\* merged, and deleted on a yes/no answer alone, for being an ancestor of
\* itself.
C21_PrimaryNeverTarget ==
  /\ loc.primary # None => loc.primary # loc.branch
  /\ \A i \in DOMAIN cmds :
       (cmds[i].cmd = "branch-d" /\ cmds[i].rc = "ok")
         => loc.primary # loc.branch

=============================================================================
